---- MODULE Spec2Model ----
(***************************************************************************)
(* bako: the durable event log (file_events), the files table, the job     *)
(* ledger and the drain cycle of the control loop.                         *)
(*                                                                         *)
(* file_events is kept as a sequence in insertion (rowid) order.  The id   *)
(* column is a random UUID, drawn here from the ids not yet in the table;  *)
(* created_at is the wall clock in whole seconds.                          *)
(***************************************************************************)
EXTENDS Integers, Sequences, FiniteSets, TLC

\* ------------------------------------------------------------------ bounds
MaxEvents == 2
MaxTime == 1
MaxFileIds == 2

Paths == {"/a", "/b"}
EventIds == 1..MaxEvents
Times == 0..MaxTime
Limits == 0..Cardinality(Paths)

\* ------------------------------------------------------------------ state
VARIABLES
    file_events,   \* table file_events, in rowid order
    now,           \* SystemTime::now() in seconds since the epoch
    last,          \* the last Database call: its arguments and what it returned
    files,         \* table files: a set of rows, at most one per path
    ids_used,      \* how many file ids Uuid::new_v4 has handed out to new rows
    fs,            \* the watched directory: what is at each path
    pc,            \* the control loop: "idle" in select!, "drain" in the for loop
    batch,         \* process_event_queue: the events still to be processed
    jobs,          \* table jobs, in rowid order
    embeddings,    \* table embeddings: the file_id of each row, in rowid order
    chan,          \* the mpsc channel from the watcher to the control loop
    deleted,       \* the files rows that were deleted so far, by id and path
    closed         \* every sender of the channel is dropped

morevars == <<embeddings, chan, deleted, closed>>
vars == <<file_events, now, last, files, ids_used, fs, pc, batch, jobs, morevars>>
progvars == <<files, ids_used, fs, pc, batch, jobs, morevars>>

\* ----------------------------------------------------------- FileEventType
FileEventType == {"Create", "Modify", "Delete"}

to_string(t) ==
    CASE t = "Create" -> "create"
      [] t = "Modify" -> "modify"
      [] t = "Delete" -> "delete"

from_string(s) ==
    CASE s = "create" -> "Create"
      [] s = "modify" -> "Modify"
      [] s = "delete" -> "Delete"
      [] OTHER -> "None"

\* row.get(2) parsed, .unwrap_or(FileEventType::Create)
QueuedEvent(row) ==
    [id |-> row.id,
     path |-> row.path,
     event_type |-> IF from_string(row.event_type) = "None" THEN "Create"
                    ELSE from_string(row.event_type),
     created_at |-> row.created_at,
     processed |-> row.processed]

NoCall == [op |-> "none", path |-> "", event_type |-> "", num |-> 0,
           ret |-> 0, events |-> <<>>, result |-> "", again |-> FALSE,
           note |-> ""]

\* the record of a call; again: it is a mark_event_processed and the call
\* before it was the same call with the same arguments
Call(op, path, event_type, num, ret, events, prev) ==
    [op |-> op, path |-> path, event_type |-> event_type, num |-> num,
     ret |-> ret, events |-> events, result |-> "Ok",
     again |-> (op = "mark_event_processed" /\ prev.op = op
                /\ prev.path = path /\ prev.num = num),
     note |-> ""]

\* ------------------------------------------------------------- the queries
\* WHERE processed = 0
Unprocessed(evs) == {i \in DOMAIN evs : evs[i].processed = FALSE}

\* SELECT COUNT(*) FROM file_events WHERE processed = 0
get_queue_size(evs) == Cardinality(Unprocessed(evs))

\* the order turned round: ORDER BY created_at ASC, id ASC
RankedBefore_Asc(evs, i, j) ==
    \/ evs[i].created_at < evs[j].created_at
    \/ evs[i].created_at = evs[j].created_at /\ evs[i].id < evs[j].id

\* ORDER BY created_at DESC, id DESC: row i comes before row j
RankedBefore(evs, i, j) ==
    \/ evs[i].created_at > evs[j].created_at
    \/ evs[i].created_at = evs[j].created_at /\ evs[i].id > evs[j].id

\* ROW_NUMBER() OVER (PARTITION BY path ORDER BY created_at DESC, id DESC) = 1
RankedFirst(evs) ==
    {i \in Unprocessed(evs) :
        \A j \in Unprocessed(evs) :
            (j # i /\ evs[j].path = evs[i].path) => RankedBefore(evs, i, j)}

Min(a, b) == IF a < b THEN a ELSE b

\* the query without its LIMIT
PendingResults_NoLimit(evs, limit) ==
    LET sel == RankedFirst(evs)
        n == Cardinality(sel)
    IN {[k \in 1..n |-> QueuedEvent(evs[f[k]])] :
            f \in {g \in [1..n -> sel] :
                     \A a, b \in 1..n : a < b =>
                            /\ g[a] # g[b]
                            /\ evs[g[a]].created_at <= evs[g[b]].created_at}}

\* ... WHERE rn = 1 ORDER BY created_at ASC LIMIT ?  The order of rows with
\* equal created_at is not fixed by the query: every order is a result.
PendingResults(evs, limit) ==
    LET sel == RankedFirst(evs)
        n == Min(limit, Cardinality(sel))
    IN {[k \in 1..n |-> QueuedEvent(evs[f[k]])] :
            f \in {g \in [1..n -> sel] :
                     /\ \A a, b \in 1..n : a < b =>
                            /\ g[a] # g[b]
                            /\ evs[g[a]].created_at <= evs[g[b]].created_at
                     /\ \A i \in sel \ {g[k] : k \in 1..n} :
                            \A k \in 1..n :
                                evs[g[k]].created_at <= evs[i].created_at}}

\* created_at < ?2 in place of <=
MarkRows_Strict(evs, path, cutoff) ==
    {i \in DOMAIN evs : /\ evs[i].path = path
                        /\ evs[i].created_at < cutoff
                        /\ evs[i].processed = FALSE}

\* the WHERE clause without processed = 0
MarkRows_AnyFlag(evs, path, cutoff) ==
    {i \in DOMAIN evs : /\ evs[i].path = path
                        /\ evs[i].created_at <= cutoff}

\* WHERE path = ?1 AND created_at <= ?2 AND processed = 0
MarkRows(evs, path, cutoff) ==
    {i \in DOMAIN evs : /\ evs[i].path = path
                        /\ evs[i].created_at <= cutoff
                        /\ evs[i].processed = FALSE}

\* DELETE FROM file_events WHERE ... in place of the UPDATE
MarkApply_Delete(evs, path, cutoff) ==
    LET keep(e) == ~(e.path = path /\ e.created_at <= cutoff /\ e.processed = FALSE)
    IN SelectSeq(evs, keep)

\* UPDATE file_events SET processed = 1 WHERE ...
MarkApply(evs, path, cutoff) ==
    [i \in DOMAIN evs |->
        IF i \in MarkRows(evs, path, cutoff)
        THEN [evs[i] EXCEPT !.processed = TRUE]
        ELSE evs[i]]

\* ---------------------------------------------------------------- actions
Init ==
    /\ file_events = <<>>
    /\ now = 0
    /\ last = NoCall
    /\ files = {}
    /\ ids_used = 0
    /\ fs = [p \in Paths |-> "absent"]
    /\ pc = "idle"
    /\ batch = <<>>
    /\ jobs = <<>>
    /\ embeddings = <<>>
    /\ chan = <<>>
    /\ deleted = {}
    /\ closed = FALSE

\* the wall clock moves on
ClockTick ==
    /\ now < MaxTime
    /\ now' = now + 1
    /\ UNCHANGED <<file_events, last, progvars>>

\* an enqueue that coalesces: it rewrites the path's unprocessed event when
\* there is one
InsertEvent_Coalesce(path, event_type) ==
    /\ Len(file_events) < MaxEvents
    /\ IF \E i \in DOMAIN file_events :
             file_events[i].path = path /\ file_events[i].processed = FALSE
       THEN file_events' =
              [i \in DOMAIN file_events |->
                 IF file_events[i].path = path /\ file_events[i].processed = FALSE
                 THEN [file_events[i] EXCEPT !.event_type = to_string(event_type),
                                             !.created_at = now]
                 ELSE file_events[i]]
       ELSE \E id \in EventIds \ {file_events[i].id : i \in DOMAIN file_events} :
              file_events' = Append(file_events,
                  [id |-> id, path |-> path, event_type |-> to_string(event_type),
                   created_at |-> now, processed |-> FALSE])

\* Database::queue_file_event: the INSERT
InsertEvent(path, event_type) ==
    /\ Len(file_events) < MaxEvents
    /\ \E id \in EventIds \ {file_events[i].id : i \in DOMAIN file_events} :
          file_events' = Append(file_events,
              [id |-> id, path |-> path, event_type |-> to_string(event_type),
               created_at |-> now, processed |-> FALSE])

\* Database::queue_file_event
queue_file_event(path, event_type) ==
    /\ InsertEvent(path, event_type)
    /\ last' = Call("queue_file_event", "", "", 0, 0, <<>>, last)
    /\ UNCHANGED <<now, progvars>>

\* Database::get_pending_events
get_pending_events(limit) ==
    /\ \E r \in PendingResults(file_events, limit) :
          last' = Call("get_pending_events", "", "", limit, 0, r, last)
    /\ UNCHANGED <<file_events, now, progvars>>

\* Database::mark_event_processed
mark_event_processed(processed_event_id, processed_event_path, processed_event_created_at) ==
    /\ file_events' = MarkApply(file_events, processed_event_path,
                                processed_event_created_at)
    /\ last' = Call("mark_event_processed", processed_event_path, "",
                     processed_event_created_at,
                     Cardinality(MarkRows(file_events, processed_event_path,
                                          processed_event_created_at)),
                     <<>>, last)
    /\ UNCHANGED <<now, progvars>>

\* --------------------------------------------------------- the files table
FsStates == {"absent", "dir", "file"}

\* Path::exists / fs::metadata(..).is_file()
exists(st) == st # "absent"
\* the check left out
is_file_Any(st) == TRUE
is_file(st) == st = "file"

\* get_file_type and hash_file open and read the path: Err unless it is a
\* readable regular file
get_file_type(st) == IF is_file(st) THEN "text/plain" ELSE "Err"
hash_file(st) == IF is_file(st) THEN "blake3" ELSE "Err"

FileAt(tbl, path) == {f \in tbl : f.path = path}

\* the INSERT without its ON CONFLICT clause and without the UNIQUE index
create_file_NoConflict(tbl, used, path, file_type, hash) ==
    [files |-> tbl \cup {[id |-> used + 1, path |-> path,
                          file_type |-> file_type, hash |-> hash, size |-> 0]},
     used |-> used + 1]

\* the id made from the path instead of Uuid::new_v4
create_file_IdOfPath(tbl, used, path, file_type, hash) ==
    [files |-> {f \in tbl : f.path # path}
                 \cup {[id |-> IF path = "/a" THEN 1 ELSE 2, path |-> path,
                        file_type |-> file_type, hash |-> hash, size |-> 0]},
     used |-> IF FileAt(tbl, path) = {} THEN used + 1 ELSE used]

\* Database::create_file: INSERT ... ON CONFLICT(path) DO UPDATE; the row
\* keeps its id on conflict, a new row takes a new uuid
create_file(tbl, used, path, file_type, hash) ==
    IF FileAt(tbl, path) = {}
    THEN [files |-> tbl \cup {[id |-> used + 1, path |-> path,
                               file_type |-> file_type, hash |-> hash,
                               size |-> 0]},
          used |-> used + 1]
    ELSE [files |-> {IF f.path = path
                     THEN [f EXCEPT !.file_type = file_type, !.hash = hash]
                     ELSE f : f \in tbl},
          used |-> used]

\* Database::update_file: UPDATE ... WHERE path; no row updated: create_file
update_file(tbl, used, path, file_type, hash) ==
    IF FileAt(tbl, path) = {}
    THEN create_file(tbl, used, path, file_type, hash)
    ELSE [files |-> {IF f.path = path
                     THEN [f EXCEPT !.file_type = file_type, !.hash = hash]
                     ELSE f : f \in tbl},
          used |-> used]

\* FileRepository::upsert_file: as create_file, with the size of the file
upsert_file(tbl, used, path, file_type, hash, size) ==
    IF FileAt(tbl, path) = {}
    THEN [files |-> tbl \cup {[id |-> used + 1, path |-> path,
                               file_type |-> file_type, hash |-> hash,
                               size |-> size]},
          used |-> used + 1]
    ELSE [files |-> {IF f.path = path
                     THEN [f EXCEPT !.file_type = file_type, !.hash = hash,
                                    !.size = size]
                     ELSE f : f \in tbl},
          used |-> used]

\* the row is kept
delete_file_Keep(tbl, path) == tbl

\* Database::delete_file: DELETE FROM files WHERE path (Err when no row)
delete_file(tbl, path) == {f \in tbl : f.path # path}

\* ------------------------------------------------------- the control loop
\* what the watcher reports
NotifyKinds == {"Create", "Modify", "Remove", "Access"}
NotifyPaths == {<<>>} \cup {<<p>> : p \in Paths}
                      \cup {<<p, q>> : p \in Paths, q \in Paths}

\* the kinds of the one-path notifications the smaller specifications use
DrainKinds == {"Create", "Remove"}

\* the loop without its return: the last path that is a regular file
FirstFile_Last(paths) ==
    LET ok == {i \in DOMAIN paths : is_file(fs[paths[i]])}
    IN IF ok = {} THEN 0 ELSE CHOOSE i \in ok : \A j \in ok : j <= i

\* queue_create_event / queue_modify_event: the first path that is a regular
\* file; queue_remove_event: the first path
FirstFile(paths) ==
    LET ok == {i \in DOMAIN paths : is_file(fs[paths[i]])}
    IN IF ok = {} THEN 0 ELSE CHOOSE i \in ok : \A j \in ok : i <= j

\* handle_event: what a notification appends to the log
EnqueueFor(kind, paths) ==
    /\ \/ /\ kind \in {"Create", "Modify"}
          /\ FirstFile(paths) # 0
          /\ InsertEvent(paths[FirstFile(paths)], kind)
       \/ /\ kind \in {"Create", "Modify"}
          /\ FirstFile(paths) = 0
          /\ UNCHANGED file_events
       \/ /\ kind = "Remove"
          /\ paths # <<>>
          /\ InsertEvent(paths[1], "Delete")
       \/ /\ kind = "Remove"
          /\ paths = <<>>
          /\ UNCHANGED file_events
       \/ /\ kind = "Access"
          /\ UNCHANGED file_events

\* run_main_event_loop, the recv branch: handle_event
handle_event(kind, paths) ==
    /\ pc = "idle"
    /\ EnqueueFor(kind, paths)
    /\ UNCHANGED <<now, last, files, ids_used, fs, pc, batch, jobs, morevars>>

batch_size == 10

\* process_event_queue returns Ok(()) with no event pending or once the for loop
\* is through
Returned(op) == [NoCall EXCEPT !.op = op, !.result = "Ok"]

\* run_main_event_loop, the tick branch: process_event_queue up to the loop,
\* for the batch size the loop was started with
process_event_queue_with(limit) ==
    /\ pc = "idle"
    /\ \E events \in PendingResults(file_events, limit) :
          /\ batch' = events
          /\ pc' = IF events = <<>> THEN "idle" ELSE "drain"
          /\ last' = IF events = <<>> THEN Returned("process_event_queue")
                     ELSE last
    /\ UNCHANGED <<file_events, now, files, ids_used, fs, jobs, morevars>>

\* main starts the loop with batch_size
process_event_queue == process_event_queue_with(batch_size)

\* the foreign keys of jobs and embeddings, ON DELETE CASCADE: the rows of a
\* child table that are left once the files table is rows
Cascade_Orphans(tbl, rows) == tbl
Cascade(tbl, rows) ==
    SelectSeq(tbl, LAMBDA r : r.file_id \in {f.id : f \in rows})

\* the files rows that a step removed, by id and path
Removed(before, after) ==
    {[id |-> f.id, path |-> f.path] :
        f \in {g \in before : \A h \in after : h.id # g.id}}

\* a statement of the store fails: none, the write to files, the mark
StoreFaults == {"none", "write", "mark"}
\* File::read and Embedder::genereate_embeddings: what came of them
EmbedOutcomes == {"read failed", "embed failed", "embedded"}

\* process_event_queue, the for loop: the Err of an item is logged and the
\* loop goes on with the rest of the batch
AfterItem_Abort(result, rest) == IF result = "Err" THEN <<>> ELSE rest
AfterItem(result, rest) == rest

\* a failed read or embedding call returned to the caller as an error
EmbedResult_Propagate(mark_result, embed) ==
    IF embed = "embedded" THEN mark_result ELSE "Err"

\* the match arms of file.read() and genereate_embeddings() only log: the
\* function goes on to the mark and returns what the mark returns
EmbedResult(mark_result, embed) == mark_result

\* what process_queued_event returns for an event, and how far it came: the
\* file is gone, cannot be read, the write to files failed, the outcome of the
\* read and the embedding call, the outcome of the delete; an embedding
\* response that was accepted holds at least one vector
ItemOutcome(event, st, tbl, fault, embed) ==
    LET mark_result == IF fault = "mark" THEN "Err" ELSE "Ok"
    IN CASE event.event_type = "Delete" ->
              [result |-> mark_result,
               note |-> IF fault = "write" \/ FileAt(tbl, event.path) = {}
                        THEN "delete failed" ELSE "deleted"]
         [] ~exists(st) -> [result |-> mark_result, note |-> "vanished"]
         [] get_file_type(st) = "Err" \/ hash_file(st) = "Err" ->
              [result |-> "Err", note |-> "unreadable"]
         [] fault = "write" -> [result |-> "Err", note |-> "store"]
         [] OTHER -> [result |-> EmbedResult(mark_result, embed), note |-> embed]

\* process_queued_event on the next event of the batch
process_queued_event(fault, embed) ==
    /\ pc = "drain"
    /\ LET event == Head(batch)
           st == fs[event.path]
           marked == IF fault = "mark" THEN file_events
                     ELSE MarkApply(file_events, event.path, event.created_at)
           out == ItemOutcome(event, st, files, fault, embed)
       IN
       /\ \/ /\ out.note = "vanished"
             /\ file_events' = marked
             /\ UNCHANGED <<files, ids_used>>
          \/ /\ out.note \in {"unreadable", "store"}
             /\ UNCHANGED <<file_events, files, ids_used>>
          \/ /\ out.note \in EmbedOutcomes
             /\ FileAt(files, event.path) # {} \/ ids_used < MaxFileIds
             /\ LET r == IF event.event_type = "Create"
                         THEN create_file(files, ids_used, event.path,
                                          get_file_type(st), hash_file(st))
                         ELSE update_file(files, ids_used, event.path,
                                          get_file_type(st), hash_file(st))
                IN /\ files' = r.files
                   /\ ids_used' = r.used
             /\ file_events' = marked
          \/ /\ out.note \in {"deleted", "delete failed"}
             /\ files' = IF fault = "write" THEN files
                         ELSE delete_file(files, event.path)
             /\ file_events' = marked
             /\ UNCHANGED ids_used
       /\ deleted' = deleted \cup Removed(files, files')
       /\ jobs' = Cascade(jobs, files')
       /\ embeddings' = Cascade(embeddings, files')
       /\ batch' = AfterItem(out.result, Tail(batch))
       /\ pc' = IF batch' = <<>> THEN "idle" ELSE "drain"
       /\ last' = IF batch' = <<>> THEN Returned("process_event_queue")
                  ELSE [Returned("process_queued_event")
                          EXCEPT !.result = out.result, !.note = out.note]
    /\ UNCHANGED <<now, fs, chan, closed>>

\* the world outside: a file is written, removed, replaced by a directory
FsChange(path, st) ==
    /\ fs[path] # st
    /\ fs' = [fs EXCEPT ![path] = st]
    /\ UNCHANGED <<file_events, now, last, files, ids_used, pc, batch, jobs, morevars>>

Next ==
    \/ ClockTick
    \/ \E p \in Paths, st \in FsStates : FsChange(p, st)
    \/ \E k \in NotifyKinds, ps \in NotifyPaths : handle_event(k, ps)
    \/ process_event_queue
    \/ \E embed \in EmbedOutcomes : process_queued_event("none", embed)

Spec == Init /\ [][Next]_vars

\* the loop started with a batch size below the number of watched paths, its
\* timer ticking for ever and every drain run to its end
SmallBatch == Cardinality(Paths) - 1

NextStarve ==
    \/ ClockTick
    \/ \E p \in Paths, st \in FsStates : FsChange(p, st)
    \/ \E p \in Paths : handle_event("Create", <<p>>)
    \/ process_event_queue_with(SmallBatch)
    \/ \E embed \in EmbedOutcomes : process_queued_event("none", embed)

SpecStarve ==
    /\ Init
    /\ [][NextStarve]_vars
    /\ WF_vars(process_event_queue_with(SmallBatch))
    /\ WF_vars(\E embed \in EmbedOutcomes : process_queued_event("none", embed))

\* the recv branch after handle_event returned Err: the error is logged and
\* the loop is back at its select
AfterHandleError_Break == "exited"
AfterHandleError == "idle"

\* the notification has a path to enqueue
WouldEnqueue(kind, paths) ==
    \/ kind \in {"Create", "Modify"} /\ FirstFile(paths) # 0
    \/ kind = "Remove" /\ paths # <<>>

\* run_main_event_loop, the recv branch, when the INSERT of queue_file_event
\* fails: handle_event returns the store's error
handle_event_failed(kind, paths) ==
    /\ pc = "idle"
    /\ WouldEnqueue(kind, paths)
    /\ file_events' = file_events
    /\ pc' = AfterHandleError
    /\ last' = [Returned("handle_event") EXCEPT !.result = "Err"]
    /\ UNCHANGED <<now, files, ids_used, fs, batch, jobs, morevars>>

\* the control loop when the store may fail on the enqueue path
NextEnqueueFault ==
    \/ \E p \in Paths, st \in FsStates : FsChange(p, st)
    \/ \E k \in DrainKinds, p \in Paths : handle_event(k, <<p>>)
    \/ \E k \in DrainKinds, p \in Paths : handle_event_failed(k, <<p>>)
    \/ process_event_queue
    \/ \E embed \in EmbedOutcomes : process_queued_event("none", embed)

SpecEnqueueFault == Init /\ [][NextEnqueueFault]_vars

\* the process dies and main starts again: the store is as the last statement
\* left it, the channel, the batch and the loop's position are lost
crash_restart ==
    /\ pc' = "idle"
    /\ batch' = <<>>
    /\ chan' = <<>>
    /\ last' = Returned("main")
    /\ UNCHANGED <<file_events, now, files, ids_used, fs, jobs, embeddings,
                   deleted, closed>>

\* the control loop with crashes; a crash after the write to files and before
\* the mark is an item whose mark did not run, then crash_restart
CrashFaults == {"none", "mark"}

NextCrash ==
    \/ ClockTick
    \/ \E p \in Paths, st \in FsStates : FsChange(p, st)
    \/ \E k \in DrainKinds, p \in Paths : handle_event(k, <<p>>)
    \/ process_event_queue
    \/ \E fault \in CrashFaults, embed \in EmbedOutcomes :
          process_queued_event(fault, embed)
    \/ crash_restart

SpecCrash == Init /\ [][NextCrash]_vars

\* the recv branch alone, with every notification the watcher can report
NextNotify ==
    \/ \E p \in Paths, st \in FsStates : FsChange(p, st)
    \/ \E k \in NotifyKinds, ps \in NotifyPaths : handle_event(k, ps)

SpecNotify == Init /\ [][NextNotify]_vars

\* the control loop fed with one-path create and remove notifications
NextDrain ==
    \/ \E p \in Paths, st \in FsStates : FsChange(p, st)
    \/ \E k \in DrainKinds, p \in Paths : handle_event(k, <<p>>)
    \/ process_event_queue
    \/ \E embed \in EmbedOutcomes : process_queued_event("none", embed)

SpecDrain == Init /\ [][NextDrain]_vars

\* ------------------------------------------------- the watcher's channel
MaxChan == 2
\* mpsc::channel(32)
ChannelCapacity == 32

\* the notification is dropped when the channel is full
blocking_send_Drop(msg) ==
    chan' = IF Len(chan) < ChannelCapacity THEN Append(chan, msg) ELSE chan

\* tx.blocking_send(msg): waits while the channel is full, then appends
blocking_send(msg) ==
    /\ ~closed
    /\ Len(chan) < ChannelCapacity
    /\ chan' = Append(chan, msg)

\* the watcher's callback, with at most MaxChan notifications in flight
watcher_send(kind, paths) ==
    /\ Len(chan) < MaxChan
    /\ blocking_send([kind |-> kind, paths |-> paths])
    /\ UNCHANGED <<file_events, now, last, files, ids_used, fs, pc, batch,
                   jobs, embeddings, deleted, closed>>

\* the watcher's callback during a burst of removals that alternate between
\* the paths: nothing but the channel holds it back
BurstNext(ch) ==
    IF ch = <<>> THEN Paths ELSE Paths \ {ch[Len(ch)].paths[1]}

watcher_burst(path) ==
    /\ path \in BurstNext(chan)
    /\ blocking_send([kind |-> "Remove", paths |-> <<path>>])
    /\ UNCHANGED <<file_events, now, last, files, ids_used, fs, pc, batch,
                   jobs, embeddings, deleted, closed>>

\* run_main_event_loop, the recv branch: filewatcher_rx.recv() at the select,
\* then handle_event
recv ==
    /\ pc = "idle"
    /\ chan # <<>>
    /\ EnqueueFor(Head(chan).kind, Head(chan).paths)
    /\ chan' = Tail(chan)
    /\ UNCHANGED <<now, last, files, ids_used, fs, pc, batch, jobs,
                   embeddings, deleted, closed>>

\* the control loop behind the channel
NextLoop ==
    \/ \E p \in Paths, st \in FsStates : FsChange(p, st)
    \/ \E k \in DrainKinds, p \in Paths : watcher_send(k, <<p>>)
    \/ recv
    \/ process_event_queue
    \/ \E embed \in EmbedOutcomes : process_queued_event("none", embed)

SpecLoop == Init /\ [][NextLoop]_vars

\* the watcher's closure ends (watch() failed, or park() returned): the
\* watcher and with it the only sender are dropped
watcher_drop ==
    /\ ~closed
    /\ closed' = TRUE
    /\ UNCHANGED <<file_events, now, last, files, ids_used, fs, pc, batch,
                   jobs, embeddings, chan, deleted>>

\* interval.tick() completes at every period and its pattern always matches:
\* the tick branch of the select is never disabled
TickDisabled == FALSE

\* the else branch of the select: every branch is disabled; the loop breaks
\* and run_main_event_loop returns Ok(())
select_else ==
    /\ closed
    /\ chan = <<>>
    /\ TickDisabled
    /\ pc' = "exited"
    /\ last' = Returned("run_main_event_loop")
    /\ UNCHANGED <<file_events, now, files, ids_used, fs, batch, jobs,
                   morevars>>

\* the select once recv() is pending or has returned None: the tick branch,
\* or else the else branch
select_tick ==
    /\ pc = "idle"
    /\ \/ process_event_queue
       \/ select_else

\* the control loop up to the end of the watcher
NextClose ==
    \/ \E p \in Paths : watcher_send("Remove", <<p>>)
    \/ watcher_drop
    \/ recv
    \/ select_tick
    \/ \E embed \in EmbedOutcomes : process_queued_event("none", embed)

\* the timer fires again and again, and the loop's task is scheduled
SpecClose ==
    /\ Init
    /\ [][NextClose]_vars
    /\ WF_vars(select_tick)
    /\ WF_vars(recv)
    /\ WF_vars(\E embed \in EmbedOutcomes : process_queued_event("none", embed))

\* the control loop behind a channel that a burst fills
NextChan ==
    \/ \E p \in Paths : watcher_burst(p)
    \/ recv
    \/ process_event_queue
    \/ \E embed \in EmbedOutcomes : process_queued_event("none", embed)

SpecChan == Init /\ [][NextChan]_vars

\* the control loop when statements of the store may fail during a drain
NextFault ==
    \/ \E p \in Paths, st \in FsStates : FsChange(p, st)
    \/ \E k \in DrainKinds, p \in Paths : handle_event(k, <<p>>)
    \/ process_event_queue
    \/ \E fault \in StoreFaults, embed \in EmbedOutcomes :
          process_queued_event(fault, embed)

SpecFault == Init /\ [][NextFault]_vars

\* ----------------------------------------------------------- the job ledger
MaxJobs == 2
MaxBatch == 2

JobStatus == {"pending", "running", "completed", "failed"}
ErrorMessages == {"NULL", "boom"}
JobIds == 1..MaxJobs
FileIds == 1..MaxFileIds
JobBatches == UNION {[1..n -> JobIds] : n \in 0..MaxBatch}

\* the foreign keys of jobs and embeddings: file_id is the id of a files row
ForeignKeyOk(rows, file_id) == \E f \in rows : f.id = file_id

\* Uuid::new_v4: an id no row of the table has
NewJobId(tbl) ==
    CHOOSE id \in JobIds :
       /\ \A j \in DOMAIN tbl : tbl[j].id # id
       /\ \A other \in JobIds :
             (\A j \in DOMAIN tbl : tbl[j].id # other) => id <= other

\* the row of the INSERT: status 'pending', error_message NULL
NewJob(tbl, file_id) ==
    [id |-> NewJobId(tbl), file_id |-> file_id, status |-> "pending",
     error_message |-> "NULL"]

\* an insert that is skipped when the file already has a pending job
JobInserted_IfNonePending(tbl, file_id) ==
    IF \E j \in DOMAIN tbl :
          tbl[j].file_id = file_id /\ tbl[j].status = "pending"
    THEN tbl
    ELSE Append(tbl, NewJob(tbl, file_id))

\* INSERT INTO jobs (id, file_id, status, error_message): no look at the
\* rows the table holds
JobInserted(tbl, file_id) == Append(tbl, NewJob(tbl, file_id))

\* JobRepository::get_queue_size: SELECT COUNT(*) FROM jobs WHERE status = 'pending'
job_queue_size(tbl) ==
    Cardinality({j \in DOMAIN tbl : tbl[j].status = "pending"})

\* JobRepository::insert_job
insert_job(file_id) ==
    /\ Len(jobs) < MaxJobs
    /\ jobs' = IF ForeignKeyOk(files, file_id)
               THEN JobInserted(jobs, file_id)
               ELSE jobs
    /\ last' = [Call("insert_job", "", "", file_id, Len(jobs'), <<>>, last)
                  EXCEPT !.result = IF ForeignKeyOk(files, file_id)
                                    THEN "Ok" ELSE "Err"]
    /\ UNCHANGED <<file_events, now, files, ids_used, fs, pc, batch, morevars>>

\* UPDATE jobs SET status = .., error_message = .. WHERE id = job_id
UpdateJob(tbl, job_id, status, error_message) ==
    [j \in DOMAIN tbl |->
        IF tbl[j].id = job_id
        THEN [tbl[j] EXCEPT !.status = status, !.error_message = error_message]
        ELSE tbl[j]]

\* the first k statements of the batch, one after the other
RECURSIVE UpdateJobs(_, _, _, _, _)
UpdateJobs(tbl, job_ids, k, status, error_message) ==
    IF k = 0 THEN tbl
    ELSE UpdateJob(UpdateJobs(tbl, job_ids, k - 1, status, error_message),
                   job_ids[k], status, error_message)

\* how many statements execute_batch runs before it returns: all of them, or
\* fewer when a statement fails or the process is interrupted; each statement
\* is committed on its own (the batch opens no transaction)
StatementsRun(job_ids) == 0..Len(job_ids)

\* JobRepository::update_job_batch
update_job_batch(job_ids, status, error_message) ==
    /\ \E k \in StatementsRun(job_ids) :
          /\ jobs' = UpdateJobs(jobs, job_ids, k, status, error_message)
          /\ last' = [Call("update_job_batch", "", status, Len(job_ids), 0,
                            <<>>, last)
                        EXCEPT !.result = IF k = Len(job_ids) THEN "Ok" ELSE "Err"]
    /\ UNCHANGED <<file_events, now, files, ids_used, fs, pc, batch, morevars>>

\* the calls of the job ledger, in any order and with any arguments
NextJobs ==
    \/ \E f \in FileIds : insert_job(f)
    \/ \E ids \in JobBatches, st \in JobStatus, err \in ErrorMessages :
          update_job_batch(ids, st, err)

\* the ledger starts with one file in the store
InitJobs ==
    /\ file_events = <<>>
    /\ now = 0
    /\ last = NoCall
    /\ files = create_file({}, 0, "/a", "text/plain", "blake3").files
    /\ ids_used = 1
    /\ fs = [p \in Paths |-> "absent"]
    /\ pc = "idle"
    /\ batch = <<>>
    /\ jobs = <<>>
    /\ embeddings = <<>>
    /\ chan = <<>>
    /\ deleted = {}
    /\ closed = FALSE

SpecJobs == InitJobs /\ [][NextJobs]_vars

\* jobs created and moved through their statuses one at a time
NextJobQueue ==
    \/ \E f \in FileIds : insert_job(f)
    \/ \E id \in JobIds, st \in JobStatus :
          update_job_batch(<<id>>, st, "NULL")

SpecJobQueue == InitJobs /\ [][NextJobQueue]_vars

\* ------------------------------------------------------ the files store
MaxEmbeddings == 2

FileTypes == {"text/plain"}
Hashes == {"blake3", "blake3'"}
Sizes == {1, 2}

\* the record of a call on the files table: whether it inserted a row
FileCall(op, path) ==
    [Call(op, path, "", 0, 0, <<>>, last)
       EXCEPT !.note = IF FileAt(files, path) = {} THEN "inserted"
                       ELSE "updated"]

\* a call of Database::create_file
call_create_file(path, file_type, hash) ==
    /\ FileAt(files, path) # {} \/ ids_used < MaxFileIds
    /\ LET r == create_file(files, ids_used, path, file_type, hash)
       IN /\ files' = r.files
          /\ ids_used' = r.used
    /\ last' = FileCall("create_file", path)
    /\ UNCHANGED <<file_events, now, fs, pc, batch, jobs, morevars>>

\* a call of Database::update_file
call_update_file(path, file_type, hash) ==
    /\ FileAt(files, path) # {} \/ ids_used < MaxFileIds
    /\ LET r == update_file(files, ids_used, path, file_type, hash)
       IN /\ files' = r.files
          /\ ids_used' = r.used
    /\ last' = FileCall("update_file", path)
    /\ UNCHANGED <<file_events, now, fs, pc, batch, jobs, morevars>>

\* a call of FileRepository::upsert_file
call_upsert_file(path, file_type, hash, size) ==
    /\ FileAt(files, path) # {} \/ ids_used < MaxFileIds
    /\ LET r == upsert_file(files, ids_used, path, file_type, hash, size)
       IN /\ files' = r.files
          /\ ids_used' = r.used
    /\ last' = FileCall("upsert_file", path)
    /\ UNCHANGED <<file_events, now, fs, pc, batch, jobs, morevars>>

\* a call of Database::delete_file or FileRepository::delete_file; num and
\* ret: the jobs and the embeddings that went with the row
call_delete_file(path) ==
    /\ files' = delete_file(files, path)
    /\ jobs' = Cascade(jobs, files')
    /\ embeddings' = Cascade(embeddings, files')
    /\ deleted' = deleted \cup Removed(files, files')
    /\ last' = [Call("delete_file", path, "", Len(jobs) - Len(jobs'),
                     Len(embeddings) - Len(embeddings'), <<>>, last)
                  EXCEPT !.result = IF FileAt(files, path) = {} THEN "Err"
                                    ELSE "Ok"]
    /\ UNCHANGED <<file_events, now, ids_used, fs, pc, batch, chan, closed>>

\* EmbeddingRepository::insert_embedding
insert_embedding(file_id) ==
    /\ Len(embeddings) < MaxEmbeddings
    /\ embeddings' = IF ForeignKeyOk(files, file_id)
                     THEN Append(embeddings, [file_id |-> file_id])
                     ELSE embeddings
    /\ last' = [Call("insert_embedding", "", "", file_id, Len(embeddings'),
                     <<>>, last)
                  EXCEPT !.result = IF ForeignKeyOk(files, file_id)
                                    THEN "Ok" ELSE "Err"]
    /\ UNCHANGED <<file_events, now, files, ids_used, fs, pc, batch, jobs,
                   chan, deleted, closed>>

\* the calls of the files store, in any order and with any arguments
NextFiles ==
    \/ \E p \in Paths, t \in FileTypes, h \in Hashes : call_create_file(p, t, h)
    \/ \E p \in Paths, t \in FileTypes, h \in Hashes : call_update_file(p, t, h)
    \/ \E p \in Paths, t \in FileTypes, h \in Hashes, z \in Sizes :
          call_upsert_file(p, t, h, z)
    \/ \E p \in Paths : call_delete_file(p)

SpecFiles == Init /\ [][NextFiles]_vars

\* files with jobs and embeddings: the calls that insert and delete rows
NextCascade ==
    \/ \E p \in Paths, t \in FileTypes : call_create_file(p, t, "blake3")
    \/ \E p \in Paths : call_delete_file(p)
    \/ \E f \in FileIds : insert_job(f)
    \/ \E f \in FileIds : insert_embedding(f)

SpecCascade == Init /\ [][NextCascade]_vars

\* the calls of the event log, in any order and with any arguments
LogEventTypes == {"Create", "Delete"}
AnyId == CHOOSE id \in EventIds : TRUE

NextLog ==
    \/ ClockTick
    \/ \E p \in Paths, t \in LogEventTypes : queue_file_event(p, t)
    \/ \E l \in Limits : get_pending_events(l)
    \/ \E p \in Paths, c \in Times : mark_event_processed(AnyId, p, c)

SpecLog == Init /\ [][NextLog]_vars

\* ------------------------------------------------------------ the claims
\* rows of the log that are unprocessed and of path p
UnprocessedOf(evs, p) == {i \in Unprocessed(evs) : evs[i].path = p}

\* the row of the log a returned event was read from
RowOf(evs, e) == {i \in DOMAIN evs : evs[i].id = e.id}

\* C1: get_pending_events returns at most one event per path; the event
\* returned for a path is an unprocessed event of that path whose created_at
\* is the latest among the path's unprocessed events; no processed event is
\* returned.
C1_DrainNewestPerPath ==
    last.op = "get_pending_events" =>
        LET r == last.events IN
        /\ \A a, b \in DOMAIN r : a # b => r[a].path # r[b].path
        /\ \A k \in DOMAIN r :
              /\ r[k].processed = FALSE
              /\ \E i \in UnprocessedOf(file_events, r[k].path) :
                    /\ file_events[i].id = r[k].id
                    /\ file_events[i].created_at = r[k].created_at
                    /\ to_string(r[k].event_type) = file_events[i].event_type
              /\ \A j \in UnprocessedOf(file_events, r[k].path) :
                    file_events[j].created_at <= r[k].created_at

\* a drain that chose between an older and a newer unprocessed event of one
\* path
C1_Witness ==
    /\ last.op = "get_pending_events"
    /\ Len(last.events) = 1
    /\ \E i, j \in UnprocessedOf(file_events, last.events[1].path) :
          file_events[i].created_at < file_events[j].created_at

\* C2: get_pending_events(limit) returns at most limit events, in ascending
\* created_at order; it returns limit events when at least limit paths have
\* unprocessed events; and no returned event is later than the newest
\* unprocessed event of a path that was left out.
C2_DrainLimitOldestFirst ==
    last.op = "get_pending_events" =>
        LET r == last.events
            pending == {p \in Paths : UnprocessedOf(file_events, p) # {}}
            omitted == {p \in pending : \A k \in DOMAIN r : r[k].path # p}
        IN
        /\ Len(r) <= last.num
        /\ Len(r) = Min(last.num, Cardinality(pending))
        /\ \A a, b \in DOMAIN r : a < b => r[a].created_at <= r[b].created_at
        /\ \A p \in omitted : \A k \in DOMAIN r :
              \E j \in UnprocessedOf(file_events, p) :
                  /\ r[k].created_at <= file_events[j].created_at
                  /\ \A i \in UnprocessedOf(file_events, p) :
                        file_events[i].created_at <= file_events[j].created_at

\* a drain with limit 1 that left out the path whose event is newer
C2_Witness ==
    /\ last.op = "get_pending_events"
    /\ last.num = 1
    /\ Len(last.events) = 1
    /\ \E i \in Unprocessed(file_events) :
          /\ file_events[i].path # last.events[1].path
          /\ file_events[i].created_at > last.events[1].created_at

\* C3: mark_event_processed(path, cutoff) sets processed on exactly the
\* unprocessed events of that path with created_at <= cutoff and returns their
\* number; other paths, later events and all other columns are unchanged.
C3_MarkExactly ==
    [][\A p \in {last'.path}, c \in {last'.num} :
         (last'.op = "mark_event_processed" /\ mark_event_processed(AnyId, p, c)) =>
           /\ Len(file_events') = Len(file_events)
           /\ \A i \in DOMAIN file_events :
                 /\ file_events'[i].id = file_events[i].id
                 /\ file_events'[i].path = file_events[i].path
                 /\ file_events'[i].event_type = file_events[i].event_type
                 /\ file_events'[i].created_at = file_events[i].created_at
                 /\ (file_events[i].path = p /\ file_events[i].created_at <= c)
                       => file_events'[i].processed = TRUE
                 /\ (file_events[i].path # p \/ file_events[i].created_at > c)
                       => file_events'[i].processed = file_events[i].processed
           /\ last'.ret = Cardinality({i \in DOMAIN file_events :
                    file_events[i].processed # file_events'[i].processed})
      ]_vars

\* a mark that flipped one event and left a later event of the same path, or
\* an event of another path, unprocessed
C3_Witness ==
    /\ last.op = "mark_event_processed"
    /\ last.ret = 1
    /\ \E i \in Unprocessed(file_events) :
          \/ file_events[i].path # last.path
          \/ file_events[i].path = last.path /\ file_events[i].created_at > last.num

\* C4: a second mark_event_processed with the same path and cutoff, with no
\* other call in between, returns 0 and leaves the log unchanged.
C4_MarkIdempotent ==
    [][\A p \in {last'.path}, c \in {last'.num} :
         (/\ last.op = "mark_event_processed"
          /\ last.path = p
          /\ last.num = c
          /\ last'.op = "mark_event_processed"
          /\ mark_event_processed(AnyId, p, c))
         => (last'.ret = 0 /\ last'.result = "Ok" /\ file_events' = file_events)
      ]_vars

\* the second of two equal calls, the first of which marked something
C4_Witness ==
    /\ last.op = "mark_event_processed"
    /\ last.again
    /\ last.ret = 0
    /\ \E i \in DOMAIN file_events :
          /\ file_events[i].path = last.path
          /\ file_events[i].created_at <= last.num
          /\ file_events[i].processed

\* C5: queue_file_event appends exactly one unprocessed event of the given
\* path and kind, whatever is already logged for the path; the number of
\* unprocessed events grows by one and no existing event changes.
C5_EnqueueAppendsOne ==
    [][\A p \in Paths, t \in FileEventType :
         (last'.op = "queue_file_event" /\ queue_file_event(p, t)) =>
           /\ Len(file_events') = Len(file_events) + 1
           /\ SubSeq(file_events', 1, Len(file_events)) = file_events
           /\ LET e == QueuedEvent(file_events'[Len(file_events')]) IN
                 /\ e.path = p
                 /\ e.event_type = t
                 /\ e.processed = FALSE
                 /\ e.created_at = now
                 /\ \A i \in DOMAIN file_events : file_events[i].id # e.id
           /\ get_queue_size(file_events') = get_queue_size(file_events) + 1
      ]_vars

\* an enqueue for a path that already had an unprocessed event of the same kind
C5_Witness ==
    /\ last.op = "queue_file_event"
    /\ \E i, j \in Unprocessed(file_events) :
          /\ i < j
          /\ j = Len(file_events)
          /\ file_events[i].path = file_events[j].path
          /\ file_events[i].event_type = file_events[j].event_type
          /\ file_events[i].created_at = file_events[j].created_at

\* C7: of two unprocessed events of one path with the same created_at, the
\* drain returns the one that was enqueued later.
C7_TieByInsertionOrder ==
    last.op = "get_pending_events" =>
        \A k \in DOMAIN last.events :
            \A i \in RowOf(file_events, last.events[k]) :
                \A j \in UnprocessedOf(file_events, last.events[k].path) :
                    file_events[j].created_at = file_events[i].created_at
                        => j <= i

\* C6: the log is append-only: no event is removed, an event's id, path, kind
\* and created_at never change, processed only goes from false to true.
C6_AppendOnly ==
    [][/\ Len(file_events') >= Len(file_events)
       /\ \A i \in DOMAIN file_events :
             /\ file_events'[i].id = file_events[i].id
             /\ file_events'[i].path = file_events[i].path
             /\ file_events'[i].event_type = file_events[i].event_type
             /\ file_events'[i].created_at = file_events[i].created_at
             /\ file_events[i].processed => file_events'[i].processed
      ]_vars

\* an enqueue after a mark: the processed event is still in the log
C6_Witness ==
    /\ last.op = "queue_file_event"
    /\ Len(file_events) = 2
    /\ file_events[1].processed
    /\ ~file_events[2].processed

\* C8: in a drain cycle at most one event per path is acted on, the most
\* recently enqueued unprocessed one; when it is marked processed every older
\* unprocessed event of the path is marked with it; no processed event is in
\* a batch.
C8_DrainActsOnMostRecent ==
    [][(\E embed \in EmbedOutcomes : process_queued_event("none", embed)) =>
         LET e == Head(batch)
             rows == UnprocessedOf(file_events, e.path)
         IN
         /\ \A k \in 2..Len(batch) : batch[k].path # e.path
         /\ \E i \in rows : file_events[i].id = e.id /\ \A j \in rows : j <= i
         /\ (\E i \in rows : file_events[i].id = e.id /\ file_events'[i].processed)
               => \A j \in rows : file_events'[j].processed
         /\ \A k \in DOMAIN batch' :
               \E i \in Unprocessed(file_events') : file_events'[i].id = batch'[k].id
      ]_vars

\* all the jobs of ids with the new status and error message
AllUpdated(tbl, ids, status, error_message) ==
    [j \in DOMAIN tbl |->
        IF \E k \in DOMAIN ids : ids[k] = tbl[j].id
        THEN [tbl[j] EXCEPT !.status = status, !.error_message = error_message]
        ELSE tbl[j]]

\* C9: update_job_batch is all-or-nothing: every listed job gets the new
\* status and error message, or the table is as it was.
C9_BatchAllOrNothing ==
    [][\A ids \in JobBatches, st \in JobStatus, err \in ErrorMessages :
         update_job_batch(ids, st, err) =>
            \/ jobs' = AllUpdated(jobs, ids, st, err)
            \/ jobs' = jobs
      ]_vars

\* C10: a job's status only moves forward, pending -> running -> completed or
\* failed: completed and failed are final, nothing goes back to pending or
\* running.
StatusRank(st) ==
    CASE st = "pending" -> 0
      [] st = "running" -> 1
      [] OTHER -> 2

C10_StatusMonotonic ==
    [][\A j \in DOMAIN jobs :
          \/ jobs'[j].status = jobs[j].status
          \/ StatusRank(jobs[j].status) < StatusRank(jobs'[j].status)
      ]_vars

\* one call of process_queued_event, whatever the store and the embedder do
ItemStep ==
    \E fault \in StoreFaults, embed \in EmbedOutcomes :
       process_queued_event(fault, embed)

\* one call of process_queued_event that returns one of results and came as
\* far as one of notes
Results == {"Ok", "Err"}
ItemStepWith(results, notes) ==
    /\ pc = "drain"
    /\ batch' # batch
    /\ \E fault \in StoreFaults, embed \in EmbedOutcomes :
          /\ process_queued_event(fault, embed)
          /\ LET out == ItemOutcome(Head(batch), fs[Head(batch).path], files,
                                    fault, embed)
             IN out.result \in results /\ out.note \in notes

\* the jobs of a file
JobsOf(tbl, file_id) == {j \in DOMAIN tbl : tbl[j].file_id = file_id}
PendingJobsOf(tbl, file_id) ==
    {j \in JobsOf(tbl, file_id) : tbl[j].status = "pending"}

\* C11: once a create or modify event was processed and its FileRecord
\* upserted, the file has at least one job and at most one pending job
C11_OneJobPerProcessedFile ==
    [][ItemStepWith(Results, EmbedOutcomes) =>
          \A f \in FileAt(files', Head(batch).path) :
             /\ Cardinality(PendingJobsOf(jobs', f.id)) <= 1
             /\ Cardinality(JobsOf(jobs', f.id)) >= 1
      ]_vars

\* C12: when the file of a create or modify event is gone, processing the
\* event marks it processed, returns Ok and leaves a failed job whose message
\* is "file vanished"
C12_VanishedFileFailsJob ==
    [][ItemStepWith(Results, {"vanished"}) =>
          /\ ~ItemStepWith({"Err"}, {"vanished"})
          /\ \A i \in UnprocessedOf(file_events, Head(batch).path) :
                file_events[i].created_at <= Head(batch).created_at
                   => file_events'[i].processed
          /\ \E j \in DOMAIN jobs' :
                /\ jobs'[j].status = "failed"
                /\ jobs'[j].error_message = "file vanished"
      ]_vars

\* C13: whatever the processing of an item of the batch returns or logs (an
\* Err of type sniffing, of hashing or of a store write, a failed read or
\* embedding call), the rest of the batch is still to be processed in the same
\* drain cycle, and once the batch is exhausted process_event_queue returns
\* Ok and the loop is back at its select
Notes ==
    {"vanished", "unreadable", "store", "deleted", "delete failed"}
       \cup EmbedOutcomes

C14_FailedItemIsTerminal ==
    [][ItemStepWith({"Err"}, {"unreadable"}) =>
          \A i \in DOMAIN file_events' :
             file_events'[i].id = Head(batch).id => file_events'[i].processed
      ]_vars

\* C15: once a create event of a readable file was processed and the
\* embedding call succeeded, the path has a FileRecord with the hash of the
\* file and an Embedding row of that FileRecord's id
C15_CreateStoresHashAndEmbedding ==
    [][(ItemStepWith({"Ok"}, {"embedded"})
        /\ Head(batch).event_type = "Create") =>
          \E f \in FileAt(files', Head(batch).path) :
             /\ f.hash = hash_file(fs[Head(batch).path])
             /\ \E k \in DOMAIN embeddings' : embeddings'[k].file_id = f.id
      ]_vars

C18_OneRecordPerPath ==
    \A f \in files, g \in files : f.path = g.path => f = g

C18_Witness ==
    /\ last.op \in {"create_file", "upsert_file", "update_file"}
    /\ last.note = "updated"
    /\ Cardinality(FileAt(files, last.path)) = 1
    /\ deleted # {}

\* C19: a step that keeps the FileRecord of a path keeps its id, and the
\* FileRecord a step creates takes an id that no FileRecord has or ever had
C19_IdStableAndFresh ==
    [][/\ \A f \in files, g \in files' : g.path = f.path => g.id = f.id
       /\ \A g \in files' :
             FileAt(files, g.path) = {} =>
                /\ \A f \in files : f.id # g.id
                /\ \A d \in deleted : d.id # g.id
      ]_vars

C19_Witness ==
    /\ last.op \in {"create_file", "upsert_file", "update_file"}
    /\ last.note = "inserted"
    /\ \E d \in deleted, f \in files : f.path = d.path /\ f.id # d.id

\* C20: while a drain cycle is in progress, a notification that waits in the
\* channel can be taken from it and appended to the log (the log of the model
\* having room for it)
C20_RecvDuringDrain ==
    (pc = "drain" /\ chan # <<>> /\ Len(file_events) < MaxEvents)
       => ENABLED recv

\* C21: the channel never holds more than 32 notifications; when it is full
\* the watcher's send waits; every send appends its notification at the tail,
\* and the only other change of the channel is the loop taking its head and
\* handling it: nothing is dropped, duplicated or reordered
C21_BackPressure ==
    /\ [](Len(chan) <= ChannelCapacity)
    /\ [](Len(chan) = ChannelCapacity
            => ~ENABLED (\E p \in Paths : watcher_burst(p)))
    /\ [][\/ chan' = chan
          \/ /\ chan # <<>>
             /\ chan' = Tail(chan)
             /\ EnqueueFor(Head(chan).kind, Head(chan).paths)
          \/ /\ Len(chan) < ChannelCapacity
             /\ \E p \in Paths :
                   chan' = Append(chan, [kind |-> "Remove", paths |-> <<p>>])
         ]_vars

C21_Witness ==
    /\ Len(chan) = ChannelCapacity
    /\ \E i \in DOMAIN file_events : file_events[i].event_type = "delete"

\* C22: once the channel is closed and drained the loop eventually takes its
\* else branch and returns, and it never does so in the middle of a drain
\* cycle
C22_ExitsWhenClosed ==
    /\ (closed /\ chan = <<>>) ~> (pc = "exited")
    /\ [][pc' = "exited" => (pc = "idle" /\ batch = <<>>)]_vars

\* the rows a step appended to the log
Appended(evs, evs2) == {i \in DOMAIN evs2 : i > Len(evs)}

\* C23: a create or modify notification appends an event only for a path
\* that is a regular file when the notification is handled; a remove
\* notification appends the event of its path whatever is at the path
C23_EnqueueOnlyRegularFiles ==
    [][\A k \in NotifyKinds, ps \in NotifyPaths :
          handle_event(k, ps) =>
             /\ k \in {"Create", "Modify"} =>
                   /\ \A i \in Appended(file_events, file_events') :
                         /\ fs[file_events'[i].path] = "file"
                         /\ \E n \in DOMAIN ps : ps[n] = file_events'[i].path
                         /\ file_events'[i].event_type = to_string(k)
                   /\ (\A n \in DOMAIN ps : fs[ps[n]] # "file")
                         => file_events' = file_events
             /\ (k = "Remove" /\ ps # <<>>) =>
                   /\ Appended(file_events, file_events') # {}
                   /\ \A i \in Appended(file_events, file_events') :
                         /\ file_events'[i].path = ps[1]
                         /\ file_events'[i].event_type = "delete"
      ]_vars

C23_Witness ==
    \E i \in DOMAIN file_events, j \in DOMAIN file_events :
       /\ file_events[i].event_type = "delete"
       /\ fs[file_events[i].path] = "absent"
       /\ file_events[j].event_type \in {"create", "modify"}
       /\ fs[file_events[j].path] = "file"

\* C24: a failed enqueue leaves the log as it was, keeps nothing of the event
\* for later (the channel and the batch are as they were) and leaves the loop
\* at its select, where notifications and ticks are served
C24_FailedEnqueueDropsEvent ==
    [][(last'.op = "handle_event" /\ last'.result = "Err"
        /\ \E k \in DrainKinds, p \in Paths : handle_event_failed(k, <<p>>)) =>
          /\ file_events' = file_events
          /\ chan' = chan
          /\ batch' = batch
          /\ pc' = "idle"
      ]_vars

C24_Witness ==
    /\ last.op = "handle_event"
    /\ last.result = "Err"
    /\ pc = "idle"
    /\ \E i \in DOMAIN file_events : file_events[i].processed
    /\ \E i \in DOMAIN file_events : ~file_events[i].processed

\* C25: a crash leaves every unprocessed event unprocessed, and a step that
\* marks events processed marks only the event it acted on and events of the
\* same path enqueued before it: no event is marked that is newer than the
\* one acted on
C25_NoEventLost ==
    [][/\ crash_restart => file_events' = file_events
       /\ ItemStepWith(Results, Notes) =>
             \A j \in DOMAIN file_events :
                (~file_events[j].processed /\ file_events'[j].processed) =>
                   \E i \in DOMAIN file_events :
                      /\ file_events[i].id = Head(batch).id
                      /\ file_events[j].path = Head(batch).path
                      /\ j <= i
      ]_vars

\* C26: when a statement of the store fails while an item is processed (the
\* write to files, the mark), the drain cycle ends there and
\* process_event_queue returns the error
C26_StoreErrorPropagates ==
    [][ItemStepWith({"Err"}, Notes \ {"unreadable"}) =>
          /\ pc' = "idle"
          /\ last'.op = "process_event_queue"
          /\ last'.result = "Err"
      ]_vars

\* C27: an accepted insert_job appends one new job of the given file, with a
\* fresh id, status pending and no error message, whatever jobs the table
\* holds: the pending-job count and the file's pending jobs grow by one per
\* call (so by k after k calls)
C27_InsertJobAlwaysInserts ==
    [][\A f \in FileIds :
          (insert_job(f) /\ ForeignKeyOk(files, f)) =>
             /\ Len(jobs') = Len(jobs) + 1
             /\ SubSeq(jobs', 1, Len(jobs)) = jobs
             /\ LET new == jobs'[Len(jobs')]
                IN  /\ new.file_id = f
                    /\ new.status = "pending"
                    /\ new.error_message = "NULL"
                    /\ \A j \in DOMAIN jobs : jobs[j].id # new.id
             /\ job_queue_size(jobs') = job_queue_size(jobs) + 1
             /\ Cardinality(PendingJobsOf(jobs', f)) =
                   Cardinality(PendingJobsOf(jobs, f)) + 1
      ]_vars

\* two calls for the same file left it two distinct pending jobs
C27_Witness ==
    /\ last.op = "insert_job"
    /\ last.result = "Ok"
    /\ \E f \in FileIds :
          /\ Cardinality(PendingJobsOf(jobs, f)) = 2
          /\ \A i, j \in PendingJobsOf(jobs, f) :
                i # j => jobs[i].id # jobs[j].id
    /\ job_queue_size(jobs) = 2

\* the event enqueued last for a path (the log keeps the order of the inserts)
LastEnqueued(evs, path) ==
    evs[CHOOSE j \in DOMAIN evs :
           /\ evs[j].path = path
           /\ \A k \in DOMAIN evs : evs[k].path = path => k <= j]

\* C28: when an item of a path was processed without error, the store
\* reflects the event enqueued last for the path: no FileRecord after a
\* delete, a FileRecord after a create or modify of a file that exists
C28_NewestWins ==
    [][ItemStepWith({"Ok"}, Notes \ {"delete failed"}) =>
          LET p == Head(batch).path
              e == LastEnqueued(file_events, p)
          IN  /\ e.event_type = "delete" => FileAt(files', p) = {}
              /\ (e.event_type \in {"create", "modify"} /\ fs[p] = "file") =>
                    FileAt(files', p) # {}
      ]_vars

\* get_file_type and hash_file succeed on a regular file, and a path that is
\* gone is marked processed as well: only what exists and cannot be read fails
CanSucceed(st) == ~exists(st) \/ (get_file_type(st) # "Err" /\ hash_file(st) # "Err")

\* C29: with the timer ticking, an unprocessed event of a path whose
\* processing can succeed is marked processed in the end, even while the
\* older events of a batch_size of other paths fail at every attempt
C29_NoStarvation ==
    \A p \in Paths :
       (CanSucceed(fs[p]) /\ UnprocessedOf(file_events, p) # {})
          ~> (UnprocessedOf(file_events, p) = {} \/ ~CanSucceed(fs[p]))

\* C30: when the read of the file or the embedding call fails for a create
\* or modify event of a regular file, the FileRecord upserted before it stays
\* with the hash of the file, the event is marked processed, the function
\* returns Ok, and no later drain returns the event: the queue does not
\* select it and a processed event stays processed
C30_EmbedFailureKeepsUpsert ==
    /\ [][\A embed \in {"read failed", "embed failed"} :
             (/\ pc = "drain"
              /\ batch' # batch
              /\ Head(batch).event_type \in {"Create", "Modify"}
              /\ is_file(fs[Head(batch).path])
              /\ process_queued_event("none", embed)) =>
                LET e == Head(batch)
                    p == e.path
                IN  /\ \E f \in files' : f.path = p /\ f.hash = hash_file(fs[p])
                    /\ \A i \in RowOf(file_events, e) : file_events'[i].processed
                    /\ ItemOutcome(e, fs[p], files, "none", embed).result = "Ok"
                    /\ \A r \in PendingResults(file_events', batch_size) :
                          \A k \in DOMAIN r : r[k].id # e.id
         ]_vars
    /\ [][\A i \in DOMAIN file_events :
             file_events[i].processed =>
                /\ i \in DOMAIN file_events'
                /\ file_events'[i].id = file_events[i].id
                /\ file_events'[i].processed
         ]_vars

\* a drain went on to its next item after an item whose read or embedding
\* call failed: the event is processed and its file has a FileRecord
C30_Witness ==
    /\ pc = "drain"
    /\ last.op = "process_queued_event"
    /\ last.result = "Ok"
    /\ last.note \in {"read failed", "embed failed"}
    /\ \E i \in DOMAIN file_events :
          /\ file_events[i].processed
          /\ file_events[i].event_type \in {"create", "modify"}
          /\ FileAt(files, file_events[i].path) # {}

\* C31: one notification appends at most one event to the log, and the log
\* it found is kept: for create and modify the event of the first path that
\* is a regular file, for remove the event of the first path; no other path
\* of the notification gets an event
C31_OneEventPerNotification ==
    [][\A k \in NotifyKinds, ps \in NotifyPaths :
          handle_event(k, ps) =>
             /\ Cardinality(Appended(file_events, file_events')) <= 1
             /\ Len(file_events') >= Len(file_events)
             /\ SubSeq(file_events', 1, Len(file_events)) = file_events
             /\ \A i \in Appended(file_events, file_events') :
                   \E n \in DOMAIN ps :
                      /\ file_events'[i].path = ps[n]
                      /\ k \in {"Create", "Modify"} =>
                            /\ fs[ps[n]] = "file"
                            /\ \A m \in 1..(n - 1) : fs[ps[m]] # "file"
                      /\ k = "Remove" => n = 1
                      /\ \A m \in DOMAIN ps :
                            ps[m] # ps[n] =>
                               \A j \in Appended(file_events, file_events') :
                                  file_events'[j].path # ps[m]
      ]_vars

\* both paths are regular files and the log holds the one event of one
\* notification
C31_Witness ==
    /\ \A p \in Paths : fs[p] = "file"
    /\ Len(file_events) = 1
    /\ file_events[1].event_type \in {"create", "modify"}
    /\ ENABLED (\E p, q \in Paths : p # q /\ handle_event("Create", <<p, q>>))

============================================================================
